---------------------------- MODULE Spec2Model ----------------------------
(***************************************************************************)
(* The cinematic free-camera controller of app/components/Scene.tsx        *)
(* (CinematicCamera): the input effect (key, mouse, pointer and wheel      *)
(* handlers, the one-shot startup timer and the effect's cleanup) and the  *)
(* per-frame step (movement, friction, boundary constraints, mouse look);  *)
(* and the model pre-loading of the root component (Scene), which renders  *)
(* the canvas and with it the camera controller once it is 'ready'.        *)
(*                                                                         *)
(* Numbers.  JavaScript doubles are modelled in fixed point, every         *)
(* product and quotient rounded to the nearest unit (ties away from zero): *)
(*   lengths and velocities   1 unit = 1/1000 world unit   (LenScale)      *)
(*   unit vectors, sin, cos   1 unit = 1/10000             (DirScale)      *)
(*   mouse offsets, dead zone 1 unit = 1/1000              (MouseScale)    *)
(*   look sensitivity         1 unit = 1/10                                *)
(*   angles, angular speeds   1 unit = 1/10^7 radian       (AngScale)      *)
(*   friction and easing      per cent                                     *)
(***************************************************************************)
EXTENDS Integers, FiniteSets, Sequences, TLC

LenScale == 10 ^ 3
DirScale == 10 ^ 4
MouseScale == 10 ^ 3
AngScale == 10 ^ 7
Percent == 10 * 10

\* ------------------------------------------------------------- bounds
\* Frame steps of one run.
MaxFrames == 2
\* Wheel events of one run.
MaxWheel == 1

\* -------------------------------------------------- program constants
\* velocity.current.y *= 0.7
VerticalFrictionPct == 70
\* velocity.current.multiplyScalar(0.5)
BounceDampPct == 50
\* velocity.current.y -= e.deltaY * 0.001   (per mille of a world unit)
WheelPerMille == 1
\* targetYawSpeed = -effectiveMouseX * lookSensitivity * 0.012
YawGainPerMille == 12
\* targetPitchSpeed = -effectiveMouseY * lookSensitivity * 0.007
PitchGainPerMille == 7
\* current...Speed += (target - current) * 0.04
EasePct == 4
\* Math.max(-0.7, Math.min(0.7, currentPitch)), in tenths of a radian
PitchLimitTenths == 7

PitchLimit == PitchLimitTenths * (AngScale \div 10)

\* ------------------------------------------------------- arithmetic
Abs(n) == IF n < 0 THEN -n ELSE n

Sign(n) == IF n > 0 THEN 1 ELSE IF n < 0 THEN -1 ELSE 0

\* n / d rounded to the nearest integer, ties away from zero (d > 0).
Round(n, d) ==
    IF n >= 0 THEN (2 * n + d) \div (2 * d)
              ELSE -((2 * (-n) + d) \div (2 * d))

RECURSIVE SqrtSearch(_, _, _)
SqrtSearch(n, lo, hi) ==
    IF lo >= hi THEN lo
    ELSE LET mid == (lo + hi + 1) \div 2
         IN  IF mid * mid <= n THEN SqrtSearch(n, mid, hi)
                               ELSE SqrtSearch(n, lo, mid - 1)

\* Math.sqrt, to the nearest integer (n < 2^31, so the root is below 46341).
Sqrt(n) ==
    LET r == SqrtSearch(n, 0, 46340)
    IN  IF n - r * r > r THEN r + 1 ELSE r

\* ---------------------------------------------------------- vectors
Vec(a, b, c) == [x |-> a, y |-> b, z |-> c]

VAdd(u, v) == Vec(u.x + v.x, u.y + v.y, u.z + v.z)

VSub(u, v) == Vec(u.x - v.x, u.y - v.y, u.z - v.z)

\* Vector3.multiplyScalar by the fraction n / d.
VScale(u, n, d) == Vec(Round(u.x * n, d), Round(u.y * n, d), Round(u.z * n, d))

LengthSq(u) == u.x * u.x + u.y * u.y + u.z * u.z

\* Vector3.length
Length(u) == Sqrt(LengthSq(u))

\* Vector3.normalize: the vector divided by its length (or 1 when it is zero),
\* as a unit vector in DirScale units.
Normalize(u) ==
    LET len == Length(u)
    IN  IF len = 0 THEN Vec(0, 0, 0) ELSE VScale(u, DirScale, len)

\* ----------------------------------------------------- trigonometry
\* pi in DirScale units of a radian.
Pi == Round(314159, 10)
TwoPi == 2 * Pi
HalfPi == Pi \div 2

\* sin x for -HalfPi <= x <= HalfPi (x and the result in DirScale units):
\* x - x^3/3! + x^5/5! - x^7/7! + x^9/9!
SinSeries(x) ==
    LET x2 == Round(x * x, DirScale)
        x3 == Round(x * x2, DirScale)
        x5 == Round(x3 * x2, DirScale)
        x7 == Round(Round(x5, 10) * x2, DirScale \div 10)
        x9 == Round(Round(x7, 10) * x2, DirScale \div 10)
    IN  x - Round(x3, 6) + Round(x5, 120) - Round(x7, 5040) + Round(x9, 362880)

\* sin a, a in DirScale units of a radian, any integer.
Sin(a) ==
    LET r == a % TwoPi
        s == IF r > Pi THEN r - TwoPi ELSE r
    IN  IF s > HalfPi THEN SinSeries(Pi - s)
        ELSE IF s < -HalfPi THEN SinSeries(-Pi - s)
        ELSE SinSeries(s)

Cos(a) == Sin(a + HalfPi)

\* ---------------------------------------------------- configuration
\* The default props of CinematicCamera.
DefaultProps ==
    [ moveSpeed |-> 80, friction |-> 95, lookSensitivity |-> 15,
      deadZone |-> 100, minHeight |-> 500, maxHeight |-> 1000,
      maxDistance |-> 20000, treeCenter |-> Vec(0, 5000, 0) ]

\* A second set of props: fast movement and look, strong friction, the anchor
\* at the origin and inside the height range.
FastProps ==
    [ moveSpeed |-> 1000, friction |-> 50, lookSensitivity |-> 15000,
      deadZone |-> 100, minHeight |-> 0, maxHeight |-> 10000,
      maxDistance |-> 10000, treeCenter |-> Vec(0, 0, 0) ]

Configs == {DefaultProps, FastProps}

\* <Canvas camera={{ position: [0, 8, 25] }}>
InitialPosition == Vec(0, 8000, 25000)

\* Viewport sizes (useThree().size).
Sizes == {[width |-> 800, height |-> 600], [width |-> 400, height |-> 300]}

\* What the environment delivers in one run: the KeyboardEvent.code values, the
\* pointer positions (<<x, y>> in 40ths of the viewport's width and height) and
\* the WheelEvent.deltaY values. A run draws its events from one of these
\* alphabets; the handlers and the frame step are the same for all.
\*   MoveEnv: a forward key and an ascend key; the pointer at the right edge;
\*            the wheel both ways.
\*   LookEnv: the pointer at the left edge of the middle row, just right of
\*            the centre (inside the dead zone on both axes) and on the
\*            bottom edge a little right of the dead zone; one key and one
\*            wheel delta.
\*   KeyEnv:  a forward and a backward key and no pointer or wheel, the
\*            camera starting at rest at (0, 0.2, 5), inside the boundaries
\*            of FastProps and below the floor of DefaultProps; the run is four frame
\*            steps long and keeps a record of its frame steps.
\*   SinkEnv: a descend key only, the camera starting at rest at (0, 0.55, 5),
\*            inside the boundaries of both sets of props and just above the
\*            floor of DefaultProps.
\*   LoadEnv: the run starts when Scene is constructed, the two models still
\*            loading and the canvas (and so the controller) not rendered.
\* In the other alphabets the run starts when the controller is constructed:
\* Scene is 'ready', both models loaded.
MoveEnv ==
    [ codes |-> {"KeyW", "Space"}, points |-> {<<40, 20>>},
      deltas |-> {-400, 400}, start |-> InitialPosition, moreFrames |-> 0,
      record |-> FALSE, loaded |-> TRUE ]

LookEnv ==
    [ codes |-> {"KeyW"}, points |-> {<<0, 20>>, <<21, 20>>, <<24, 40>>},
      deltas |-> {400}, start |-> InitialPosition, moreFrames |-> 0,
      record |-> FALSE, loaded |-> TRUE ]

KeyEnv ==
    [ codes |-> {"KeyW", "KeyS"}, points |-> {}, deltas |-> {},
      start |-> Vec(0, 200, 5000), moreFrames |-> 2,
      record |-> TRUE, loaded |-> TRUE ]

SinkEnv ==
    [ codes |-> {"KeyF"}, points |-> {}, deltas |-> {},
      start |-> Vec(0, 550, 5000), moreFrames |-> 0,
      record |-> FALSE, loaded |-> TRUE ]

LoadEnv ==
    [ codes |-> {}, points |-> {}, deltas |-> {}, start |-> InitialPosition,
      moreFrames |-> 0, record |-> FALSE, loaded |-> FALSE ]

Envs == {MoveEnv, LookEnv, KeyEnv, SinkEnv, LoadEnv}

\* The pointer position a fortieth-fraction names in a viewport extent.
Client(fortieths, extent) == (extent * fortieths) \div 40

EventTypes == {"keydown", "keyup", "mousemove", "mouseleave", "mouseenter", "wheel"}

\* delayTimerRef.current = null
NoTimer == 0

\* The two models Scene pre-loads: 1 the leaves, 2 the trunk.
Models == {1, 2}

\* const totalModels = 2
totalModels == Cardinality(Models)

\* What a progress event reports: (event.loaded / event.total) * 100.
LoadedPercents == {50, 100}

\* ------------------------------------------------------------ state
VARIABLES
    env,                 \* the alphabet of events of this run
    props,               \* the component's props
    size,                \* useThree().size
    mounted,             \* the component is mounted (the frame callback is subscribed)
    listeners,           \* event types with a handler of the effect registered
    pendingTimers,       \* timeouts set and neither fired nor cleared
    timersStarted,       \* number of setTimeout calls so far
    timersFired,         \* number of timeouts that have fired
    keys,                \* keys.current
    velocity,            \* velocity.current
    position,            \* camera.position
    mouseX, mouseY,      \* mouseX.current, mouseY.current
    currentYaw, currentPitch,
    currentYawSpeed, currentPitchSpeed,
    mouseControlReady,   \* mouseControlReady.current
    delayTimerStarted,   \* delayTimerStarted.current
    delayTimerRef,       \* delayTimerRef.current
    frames,              \* frame steps run
    wheels,              \* wheel events handled
    acted,               \* the branches the last frame step took: "input",
                         \* "floor", "ceiling", "distance"
    justLeft,            \* the last step was a handled pointer-leave
    loadingState,        \* Scene: 'loading' | 'ready'
    progress,            \* Scene: the progress shown, per cent
    loadedCount,         \* Scene's effect: models loaded so far
    progressPerModel,    \* Scene's effect: per cent loaded of each model
    modelStatus,         \* the loader's request for each model: "loading",
                         \* "loaded" (onLoad was called), "failed" (onError was)
    readyTimer,          \* the 300 ms timeout that sets 'ready' is pending
    heldKeys,            \* the keys the key events of the run leave held
    chordIgnored,        \* a keydown with Meta or Ctrl was handled (kept by
                         \* recording runs)
    wheelPending,        \* what the wheel events since the last frame step
                         \* amount to, scaled
    delayOffset,         \* the normalized offset of the last pointer event
                         \* handled while the activation is pending
    trail                \* the frame steps of a recording run: keys held,
                         \* branches taken, speed at the end

inputVars == <<keys, mouseX, mouseY>>
activationVars == <<mouseControlReady, delayTimerStarted, delayTimerRef,
                    pendingTimers, timersStarted>>
kinematicVars == <<position, velocity, currentYaw, currentPitch,
                   currentYawSpeed, currentPitchSpeed>>
hostVars == <<env, props, size, mounted, listeners>>
countVars == <<frames, wheels, acted, timersFired>>
sceneVars == <<loadingState, progress, loadedCount, progressPerModel, modelStatus,
               readyTimer>>
logVars == <<heldKeys, chordIgnored, wheelPending, delayOffset, trail>>
vars == <<hostVars, inputVars, activationVars, kinematicVars, countVars, justLeft,
          sceneVars, logVars>>

Init ==
    /\ env \in Envs
    /\ props \in Configs
    /\ size \in Sizes
    /\ mounted = env.loaded
    /\ listeners = IF env.loaded THEN EventTypes ELSE {}
    /\ pendingTimers = {}
    /\ timersStarted = 0
    /\ keys = {}
    /\ velocity = Vec(0, 0, 0)
    /\ position = env.start
    /\ mouseX = 0
    /\ mouseY = 0
    /\ currentYaw = 0
    /\ currentPitch = 0
    /\ currentYawSpeed = 0
    /\ currentPitchSpeed = 0
    /\ mouseControlReady = FALSE
    /\ delayTimerStarted = FALSE
    /\ delayTimerRef = NoTimer
    /\ frames = 0
    /\ wheels = 0
    /\ acted = {}
    /\ timersFired = 0
    /\ justLeft = FALSE
    /\ loadingState = IF env.loaded THEN "ready" ELSE "loading"
    /\ progress = IF env.loaded THEN 100 ELSE 0
    /\ loadedCount = IF env.loaded THEN totalModels ELSE 0
    /\ progressPerModel = [m \in Models |-> IF env.loaded THEN 100 ELSE 0]
    /\ modelStatus = [m \in Models |-> IF env.loaded THEN "loaded" ELSE "loading"]
    /\ readyTimer = FALSE
    /\ heldKeys = {}
    /\ chordIgnored = FALSE
    /\ wheelPending = 0
    /\ delayOffset = <<0, 0>>
    /\ trail = <<>>

\* ------------------------------------------------------ input effect
\* (e.clientX / size.width) * 2 - 1, and the same for clientY and height.
Normalized(client, extent) == Round(client * 2 * MouseScale, extent) - MouseScale

\* The part handleMouseMove and handleMouseEnter share: on the first mouse
\* activity, delayTimerStarted is set and the one-shot timeout is set.
\* The callback does not run here: mouseControlReady stays as it is.
StartDelayTimer_RunsCallbackAtOnce ==
    /\ mouseControlReady' = TRUE
    /\ IF ~delayTimerStarted
       THEN /\ delayTimerStarted' = TRUE
            /\ timersStarted' = timersStarted + 1
            /\ delayTimerRef' = timersStarted + 1
            /\ pendingTimers' = pendingTimers \cup {timersStarted + 1}
       ELSE UNCHANGED <<delayTimerStarted, timersStarted, delayTimerRef, pendingTimers>>

StartDelayTimer_StartsWheneverInactive ==
    /\ mouseControlReady' = mouseControlReady
    /\ IF ~mouseControlReady
       THEN /\ delayTimerStarted' = TRUE
            /\ timersStarted' = timersStarted + 1
            /\ delayTimerRef' = timersStarted + 1
            /\ pendingTimers' = pendingTimers \cup {timersStarted + 1}
       ELSE UNCHANGED <<delayTimerStarted, timersStarted, delayTimerRef, pendingTimers>>

StartDelayTimer ==
    /\ mouseControlReady' = mouseControlReady
    /\ IF ~delayTimerStarted
       THEN /\ delayTimerStarted' = TRUE
            /\ timersStarted' = timersStarted + 1
            /\ delayTimerRef' = timersStarted + 1
            /\ pendingTimers' = pendingTimers \cup {timersStarted + 1}
       ELSE UNCHANGED <<delayTimerStarted, timersStarted, delayTimerRef, pendingTimers>>

TrackMouse_AlsoWhilePending(clientX, clientY) ==
    /\ mouseX' = Normalized(clientX, size.width)
    /\ mouseY' = Normalized(clientY, size.height)

\* The rest of both handlers: nothing is stored until the controls are ready.
TrackMouse(clientX, clientY) ==
    IF ~mouseControlReady
    THEN UNCHANGED <<mouseX, mouseY>>
    ELSE /\ mouseX' = Normalized(clientX, size.width)
         /\ mouseY' = Normalized(clientY, size.height)

handleKeyDown_ModifiersNotChecked(code, metaKey, ctrlKey) ==
    /\ keys' = keys \cup {code}
    /\ justLeft' = FALSE
    /\ UNCHANGED <<hostVars, mouseX, mouseY, activationVars, kinematicVars, countVars,
                   sceneVars>>

handleKeyDown(code, metaKey, ctrlKey) ==
    /\ keys' = IF metaKey \/ ctrlKey THEN keys ELSE keys \cup {code}
    /\ justLeft' = FALSE
    /\ UNCHANGED <<hostVars, mouseX, mouseY, activationVars, kinematicVars, countVars,
                   sceneVars>>

handleKeyUp(code) ==
    /\ keys' = keys \ {code}
    /\ justLeft' = FALSE
    /\ UNCHANGED <<hostVars, mouseX, mouseY, activationVars, kinematicVars, countVars,
                   sceneVars>>

handleMouseMove(clientX, clientY) ==
    /\ StartDelayTimer
    /\ TrackMouse(clientX, clientY)
    /\ justLeft' = FALSE
    /\ UNCHANGED <<hostVars, keys, kinematicVars, countVars, sceneVars>>

handleMouseLeave_OffsetKept ==
    /\ justLeft' = TRUE
    /\ UNCHANGED <<hostVars, inputVars, activationVars, kinematicVars, countVars,
                   sceneVars>>

handleMouseLeave_KeysReleased ==
    /\ mouseX' = 0
    /\ mouseY' = 0
    /\ keys' = {}
    /\ justLeft' = TRUE
    /\ UNCHANGED <<hostVars, activationVars, kinematicVars, countVars, sceneVars>>

handleMouseLeave ==
    /\ mouseX' = 0
    /\ mouseY' = 0
    /\ justLeft' = TRUE
    /\ UNCHANGED <<hostVars, keys, activationVars, kinematicVars, countVars,
                   sceneVars>>

handleMouseEnter(clientX, clientY) ==
    /\ StartDelayTimer
    /\ TrackMouse(clientX, clientY)
    /\ justLeft' = FALSE
    /\ UNCHANGED <<hostVars, keys, kinematicVars, countVars, sceneVars>>

handleWheel(deltaY) ==
    /\ velocity' = [velocity EXCEPT !.y = @ - Round(deltaY * WheelPerMille * LenScale, 1000)]
    /\ wheels' = wheels + 1
    /\ justLeft' = FALSE
    /\ UNCHANGED <<hostVars, inputVars, activationVars, position, currentYaw,
                   currentPitch, currentYawSpeed, currentPitchSpeed, frames, acted,
                   timersFired, sceneVars>>

\* The timeout's callback: () => { mouseControlReady.current = true }
TimerCallback ==
    /\ mouseControlReady' = TRUE
    /\ justLeft' = FALSE
    /\ UNCHANGED <<hostVars, inputVars, delayTimerStarted, delayTimerRef,
                   timersStarted, kinematicVars, frames, wheels, acted, sceneVars>>

\* The effect's cleanup: every listener is removed and the timeout is cleared.
CleanupListeners(ls) == ls \ EventTypes

CleanupTimers_NotCleared(pending, ref) == pending

CleanupTimers(pending, ref) == IF ref # NoTimer THEN pending \ {ref} ELSE pending

\* The effect's body: the six listeners are added.
AddListeners(ls) == ls \cup EventTypes

\* ------------------------------------------------ events and the host
\* The browser delivers an event to the handler registered for it, if any.
KeyDown ==
    \E code \in env.codes, metaKey \in BOOLEAN, ctrlKey \in BOOLEAN :
        IF "keydown" \in listeners
        THEN /\ handleKeyDown(code, metaKey, ctrlKey)
             /\ heldKeys' = IF metaKey \/ ctrlKey THEN heldKeys ELSE heldKeys \cup {code}
             /\ chordIgnored' = (chordIgnored \/ (env.record /\ (metaKey \/ ctrlKey)))
             /\ UNCHANGED <<wheelPending, delayOffset, trail>>
        ELSE UNCHANGED vars

KeyUp ==
    \E code \in env.codes :
        IF "keyup" \in listeners
        THEN /\ handleKeyUp(code)
             /\ heldKeys' = heldKeys \ {code}
             /\ UNCHANGED <<chordIgnored, wheelPending, delayOffset, trail>>
        ELSE UNCHANGED vars

\* The offset a pointer event at (clientX, clientY) has, kept while the
\* activation is pending after the event.
OffsetInDelay(clientX, clientY) ==
    IF delayTimerStarted' /\ ~mouseControlReady'
    THEN <<Normalized(clientX, size.width), Normalized(clientY, size.height)>>
    ELSE delayOffset

MouseMove ==
    \E pt \in env.points :
        IF "mousemove" \in listeners
        THEN /\ handleMouseMove(Client(pt[1], size.width), Client(pt[2], size.height))
             /\ delayOffset' = OffsetInDelay(Client(pt[1], size.width),
                                             Client(pt[2], size.height))
             /\ UNCHANGED <<heldKeys, chordIgnored, wheelPending, trail>>
        ELSE UNCHANGED vars

MouseLeave ==
    IF "mouseleave" \in listeners
    THEN /\ handleMouseLeave
         /\ delayOffset' = <<0, 0>>
         /\ UNCHANGED <<heldKeys, chordIgnored, wheelPending, trail>>
    ELSE UNCHANGED vars

MouseEnter ==
    \E pt \in env.points :
        IF "mouseenter" \in listeners
        THEN /\ handleMouseEnter(Client(pt[1], size.width), Client(pt[2], size.height))
             /\ delayOffset' = OffsetInDelay(Client(pt[1], size.width),
                                             Client(pt[2], size.height))
             /\ UNCHANGED <<heldKeys, chordIgnored, wheelPending, trail>>
        ELSE UNCHANGED vars

Wheel ==
    /\ wheels < MaxWheel
    /\ \E deltaY \in env.deltas :
        IF "wheel" \in listeners
        THEN /\ handleWheel(deltaY)
             /\ wheelPending' = wheelPending - Round(deltaY * WheelPerMille * LenScale, 1000)
             /\ UNCHANGED <<heldKeys, chordIgnored, delayOffset, trail>>
        ELSE UNCHANGED vars

\* A pending timeout fires.
TimerFire ==
    /\ \E id \in pendingTimers : pendingTimers' = pendingTimers \ {id}
    /\ timersFired' = timersFired + 1
    /\ TimerCallback
    /\ delayOffset' = <<0, 0>>
    /\ UNCHANGED <<heldKeys, chordIgnored, wheelPending, trail>>

\* The viewport is resized: size is a dependency of the effect, so its cleanup
\* runs and then its body runs again. The refs live on.
Resize ==
    /\ mounted
    /\ \E sz \in Sizes \ {size} : size' = sz
    /\ listeners' = AddListeners(CleanupListeners(listeners))
    /\ pendingTimers' = CleanupTimers(pendingTimers, delayTimerRef)
    /\ justLeft' = FALSE
    /\ UNCHANGED <<env, props, mounted, inputVars, mouseControlReady, delayTimerStarted,
                   delayTimerRef, timersStarted, kinematicVars, countVars,
                   sceneVars, logVars>>

\* The component unmounts: the cleanup runs, the frame callback is unsubscribed.
Unmount ==
    /\ mounted
    /\ mounted' = FALSE
    /\ listeners' = CleanupListeners(listeners)
    /\ pendingTimers' = CleanupTimers(pendingTimers, delayTimerRef)
    /\ justLeft' = FALSE
    /\ UNCHANGED <<env, props, size, inputVars, mouseControlReady, delayTimerStarted,
                   delayTimerRef, timersStarted, kinematicVars, countVars,
                   sceneVars, logVars>>

\* -------------------------------------------------------- frame step
\* camera.getWorldDirection for the rotation the previous frame step applied
\* (order YXZ, rotation.y = yaw, rotation.x = pitch): the camera looks down
\* its local -Z.
WorldDirection(yaw, pitch) ==
    LET a == Round(yaw, AngScale \div DirScale)
        p == Round(pitch, AngScale \div DirScale)
    IN  Vec(-Round(Sin(a) * Cos(p), DirScale), Sin(p), -Round(Cos(a) * Cos(p), DirScale))

\* forward.y = 0; forward.normalize()
Forward(yaw, pitch) == Normalize([WorldDirection(yaw, pitch) EXCEPT !.y = 0])

\* Vector3.crossVectors of two vectors in DirScale units.
Cross(u, v) ==
    Vec(Round(u.y * v.z - u.z * v.y, DirScale),
        Round(u.z * v.x - u.x * v.z, DirScale),
        Round(u.x * v.y - u.y * v.x, DirScale))

\* right.crossVectors(forward, new THREE.Vector3(0, 1, 0)).normalize()
Right(forward) == Normalize(Cross(forward, Vec(0, DirScale, 0)))

Has(k, codes) == k \cap codes # {}

InputDir_BackwardNotSubtracted(k, forward, right) ==
    LET zero == Vec(0, 0, 0)
        d1 == IF Has(k, {"KeyW", "ArrowUp"}) THEN forward ELSE zero
        d3 == IF Has(k, {"KeyA", "ArrowLeft"}) THEN VScale(right, -1, 1) ELSE zero
        d4 == IF Has(k, {"KeyD", "ArrowRight"}) THEN right ELSE zero
        up == IF Has(k, {"KeyR", "Space"}) THEN DirScale ELSE 0
        down == IF Has(k, {"KeyF", "ShiftLeft", "ShiftRight"}) THEN DirScale ELSE 0
        h == VAdd(d1, VAdd(d3, d4))
    IN  [h EXCEPT !.y = @ + up - down]

\* The input direction built from the pressed keys.
InputDir(k, forward, right) ==
    LET zero == Vec(0, 0, 0)
        d1 == IF Has(k, {"KeyW", "ArrowUp"}) THEN forward ELSE zero
        d2 == IF Has(k, {"KeyS", "ArrowDown"}) THEN VScale(forward, -1, 1) ELSE zero
        d3 == IF Has(k, {"KeyA", "ArrowLeft"}) THEN VScale(right, -1, 1) ELSE zero
        d4 == IF Has(k, {"KeyD", "ArrowRight"}) THEN right ELSE zero
        up == IF Has(k, {"KeyR", "Space"}) THEN DirScale ELSE 0
        down == IF Has(k, {"KeyF", "ShiftLeft", "ShiftRight"}) THEN DirScale ELSE 0
        h == VAdd(VAdd(d1, d2), VAdd(d3, d4))
    IN  [h EXCEPT !.y = @ + up - down]

ApplyMovement_NoFriction(vel, inputDir, moveSpeed, friction) ==
    IF Length(inputDir) > 0
    THEN VScale(Normalize(inputDir), moveSpeed, DirScale)
    ELSE vel

ApplyMovement_InputAdded(vel, inputDir, moveSpeed, friction) ==
    IF Length(inputDir) > 0
    THEN VAdd(vel, VScale(Normalize(inputDir), moveSpeed, DirScale))
    ELSE Vec(Round(vel.x * friction, Percent),
             Round(vel.y * VerticalFrictionPct, Percent),
             Round(vel.z * friction, Percent))

\* "Apply movement": input replaces the velocity; without input, friction.
ApplyMovement(vel, inputDir, moveSpeed, friction) ==
    IF Length(inputDir) > 0
    THEN VScale(Normalize(inputDir), moveSpeed, DirScale)
    ELSE Vec(Round(vel.x * friction, Percent),
             Round(vel.y * VerticalFrictionPct, Percent),
             Round(vel.z * friction, Percent))

\* A camera state of the frame step: position, velocity, branches taken.
Body(pos, vel, taken) == [pos |-> pos, vel |-> vel, acted |-> taken]

Floor_VelocityKept(b, minHeight) ==
    IF b.pos.y < minHeight
    THEN Body([b.pos EXCEPT !.y = minHeight], b.vel, b.acted \cup {"floor"})
    ELSE b

\* Floor constraint.
Floor(b, minHeight) ==
    IF b.pos.y < minHeight
    THEN Body([b.pos EXCEPT !.y = minHeight], [b.vel EXCEPT !.y = 0],
              b.acted \cup {"floor"})
    ELSE b

\* Ceiling constraint.
Ceiling(b, maxHeight) ==
    IF b.pos.y > maxHeight
    THEN Body([b.pos EXCEPT !.y = maxHeight], [b.vel EXCEPT !.y = 0],
              b.acted \cup {"ceiling"})
    ELSE b

DistanceConstraint_CenterNotAdded(b, maxDistance, treeCenter) ==
    LET offset == VSub(b.pos, treeCenter)
    IN  IF LengthSq(offset) > maxDistance * maxDistance
        THEN Body(VScale(Normalize(offset), maxDistance, DirScale),
                  VScale(b.vel, BounceDampPct, Percent),
                  b.acted \cup {"distance"})
        ELSE b

DistanceConstraint_VelocityKept(b, maxDistance, treeCenter) ==
    LET offset == VSub(b.pos, treeCenter)
    IN  IF LengthSq(offset) > maxDistance * maxDistance
        THEN Body(VAdd(treeCenter, VScale(Normalize(offset), maxDistance, DirScale)),
                  b.vel, b.acted \cup {"distance"})
        ELSE b

\* Distance from tree constraint.
DistanceConstraint(b, maxDistance, treeCenter) ==
    LET offset == VSub(b.pos, treeCenter)
    IN  IF LengthSq(offset) > maxDistance * maxDistance
        THEN Body(VAdd(treeCenter, VScale(Normalize(offset), maxDistance, DirScale)),
                  VScale(b.vel, BounceDampPct, Percent),
                  b.acted \cup {"distance"})
        ELSE b

\* The position part of the frame step up to the constraints, in the order of
\* the code: movement, then camera.position.add(velocity.current).
Integrated(pos, vel, k, yaw, pitch, p) ==
    LET forward == Forward(yaw, pitch)
        right == Right(forward)
        inputDir == InputDir(k, forward, right)
        v1 == ApplyMovement(vel, inputDir, p.moveSpeed, p.friction)
    IN  Body(VAdd(pos, v1), v1, IF Length(inputDir) > 0 THEN {"input"} ELSE {})

\* The position part of the frame step up to the distance constraint: floor,
\* then ceiling.
HeightClamped(pos, vel, k, yaw, pitch, p) ==
    Ceiling(Floor(Integrated(pos, vel, k, yaw, pitch, p), p.minHeight), p.maxHeight)

\* The position part of the frame step.
MoveCamera(pos, vel, k, yaw, pitch, p) ==
    DistanceConstraint(HeightClamped(pos, vel, k, yaw, pitch, p),
                       p.maxDistance, p.treeCenter)

EffectiveMouse_NoDeadZone(m, deadZone) == m

\* The dead zone: offsets inside it count as zero, those outside are reduced by it.
EffectiveMouse(m, deadZone) ==
    IF Abs(m) < deadZone THEN 0 ELSE m - Sign(m) * deadZone

TargetSpeed_SignDropped(effective, lookSensitivity, gainPerMille) ==
    effective * lookSensitivity * gainPerMille

\* targetYawSpeed / targetPitchSpeed: -effective * lookSensitivity * gain.
TargetSpeed(effective, lookSensitivity, gainPerMille) ==
    -(effective * lookSensitivity * gainPerMille)

\* current += (target - current) * 0.04
Ease(current, target) == current + Round((target - current) * EasePct, Percent)

ClampPitch_UpperOnly(pitch) == IF pitch > PitchLimit THEN PitchLimit ELSE pitch

\* Math.max(-0.7, Math.min(0.7, pitch))
ClampPitch(pitch) ==
    IF pitch > PitchLimit THEN PitchLimit
    ELSE IF pitch < -PitchLimit THEN -PitchLimit ELSE pitch

\* Mouse look, only after the startup delay.
MouseLook ==
    IF mouseControlReady
    THEN LET yawSpeed == Ease(currentYawSpeed,
                              TargetSpeed(EffectiveMouse(mouseX, props.deadZone),
                                          props.lookSensitivity, YawGainPerMille))
             pitchSpeed == Ease(currentPitchSpeed,
                                TargetSpeed(EffectiveMouse(mouseY, props.deadZone),
                                            props.lookSensitivity, PitchGainPerMille))
         IN  /\ currentYawSpeed' = yawSpeed
             /\ currentYaw' = currentYaw + yawSpeed
             /\ currentPitchSpeed' = pitchSpeed
             /\ currentPitch' = ClampPitch(currentPitch + pitchSpeed)
    ELSE UNCHANGED <<currentYaw, currentPitch, currentYawSpeed, currentPitchSpeed>>

\* The useFrame callback: one frame step.
Frame ==
    /\ mounted
    /\ frames < MaxFrames + env.moreFrames
    /\ LET b == MoveCamera(position, velocity, keys, currentYaw, currentPitch, props)
       IN  /\ position' = b.pos
           /\ velocity' = b.vel
           /\ acted' = b.acted
           /\ trail' = IF env.record
                       THEN Append(trail, [keys |-> keys, acted |-> b.acted,
                                           speed |-> Length(b.vel)])
                       ELSE trail
    /\ MouseLook
    /\ frames' = frames + 1
    /\ justLeft' = FALSE
    /\ wheelPending' = 0
    /\ UNCHANGED <<hostVars, inputVars, activationVars, wheels, timersFired,
                   sceneVars, heldKeys, chordIgnored, delayOffset>>

\* ------------------------------------------------- Scene: pre-loading
\* Everything the loader's callbacks leave alone.
cameraVars == <<hostVars, inputVars, activationVars, kinematicVars, countVars,
                justLeft, logVars>>

Sum(f) == f[1] + f[2]

\* updateProgress: the mean of progressPerModel is shown.
updateProgress(perModel) == Round(Sum(perModel), totalModels)

checkComplete_ReadyAfterFirstModel ==
    /\ loadedCount' = loadedCount + 1
    /\ IF loadedCount + 1 = 1
       THEN /\ progress' = 100
            /\ readyTimer' = TRUE
       ELSE UNCHANGED <<progress, readyTimer>>

\* checkComplete: the count goes up; with the last model the progress is set
\* to 100 and the timeout that sets 'ready' is started.
checkComplete ==
    /\ loadedCount' = loadedCount + 1
    /\ IF loadedCount + 1 = totalModels
       THEN /\ progress' = 100
            /\ readyTimer' = TRUE
       ELSE UNCHANGED <<progress, readyTimer>>

\* loader.load's onLoad callback of model m: () => checkComplete()
LoadDone ==
    \E m \in Models :
        /\ modelStatus[m] = "loading"
        /\ modelStatus' = [modelStatus EXCEPT ![m] = "loaded"]
        /\ checkComplete
        /\ UNCHANGED <<loadingState, progressPerModel, cameraVars>>

\* loader.load's onProgress callback of model m.
LoadProgress ==
    \E m \in Models, lengthComputable \in BOOLEAN, percent \in LoadedPercents :
        /\ modelStatus[m] = "loading"
        /\ IF lengthComputable
           THEN /\ progressPerModel' = [progressPerModel EXCEPT ![m] = percent]
                /\ progress' = updateProgress(progressPerModel')
           ELSE UNCHANGED <<progressPerModel, progress>>
        /\ UNCHANGED <<loadingState, loadedCount, modelStatus, readyTimer, cameraVars>>

\* loader.load's onError callback of model m: the error is logged to the
\* console and nothing else is done.
LoadError ==
    \E m \in Models :
        /\ modelStatus[m] = "loading"
        /\ modelStatus' = [modelStatus EXCEPT ![m] = "failed"]
        /\ UNCHANGED <<loadingState, progress, loadedCount, progressPerModel,
                       readyTimer, cameraVars>>

\* The timeout of checkComplete fires: setLoadingState('ready'). The canvas is
\* rendered from here on; the controller it constructs is the one the runs of
\* the other alphabets start with.
ReadyTimerFire ==
    /\ readyTimer
    /\ readyTimer' = FALSE
    /\ loadingState' = "ready"
    /\ UNCHANGED <<progress, loadedCount, progressPerModel, modelStatus, cameraVars>>

Next ==
    \/ KeyDown
    \/ KeyUp
    \/ MouseMove
    \/ MouseLeave
    \/ MouseEnter
    \/ Wheel
    \/ TimerFire
    \/ Resize
    \/ Unmount
    \/ Frame
    \/ LoadDone
    \/ LoadProgress
    \/ LoadError
    \/ ReadyTimerFire

Spec == Init /\ [][Next]_vars

\* A timeout that is pending fires: the browser runs the callback of every
\* timeout that was set and not cleared.
FairSpec == Spec /\ WF_vars(TimerFire)

\* ------------------------------------------------------------ claims
MovementCodes ==
    {"KeyW", "ArrowUp", "KeyS", "ArrowDown", "KeyA", "ArrowLeft", "KeyD",
     "ArrowRight", "KeyR", "Space", "KeyF", "ShiftLeft", "ShiftRight"}

\* The configuration is one the claims speak of: minHeight <= maxHeight.
HeightRangeOrdered == props.minHeight <= props.maxHeight

\* C1: at the end of every frame step position.y lies in [minHeight, maxHeight],
\* for every configuration with minHeight <= maxHeight and any anchor point.
C1_HeightWithinRange ==
    (frames > 0 /\ HeightRangeOrdered) =>
        (props.minHeight <= position.y /\ position.y <= props.maxHeight)

\* The rounding error of the projection onto the sphere: each coordinate is off
\* by at most half a unit plus half a DirScale-th of maxDistance.
DistanceTolerance(p) == 2 * (Round(p.maxDistance, 2 * DirScale) + 1)

DistanceSq(u, v) == LengthSq(VSub(u, v))

\* C2: at the end of every frame step the camera is at most maxDistance (plus
\* the rounding tolerance) away from treeCenter.
C2_WithinMaxDistance ==
    frames > 0 =>
        LET reach == props.maxDistance + DistanceTolerance(props)
        IN  DistanceSq(position, props.treeCenter) <= reach * reach

\* C2's case: the distance constraint acted in a frame step after the first,
\* the camera having been moved outward.
C2_Witness == frames > 1 /\ "distance" \in acted /\ "input" \in acted

\* C3: in every reachable state the accumulated pitch is within [-0.7, +0.7].
C3_PitchInRange == -PitchLimit <= currentPitch /\ currentPitch <= PitchLimit

\* C3's case: mouse look has driven the pitch to the limit.
C3_Witness == mouseControlReady /\ frames > 0 /\ currentPitch = -PitchLimit

\* C4: until the startup timer has fired, yaw, pitch, yaw-speed and pitch-speed
\* keep their initial values, whatever mouse events and frame steps occur.
C4_NoLookBeforeTimerFires ==
    timersFired = 0 =>
        /\ currentYaw = 0
        /\ currentPitch = 0
        /\ currentYawSpeed = 0
        /\ currentPitchSpeed = 0

\* C4's case: the timer is pending and frame steps have run.
C4_Witness ==
    /\ timersFired = 0
    /\ delayTimerStarted
    /\ pendingTimers # {}
    /\ frames = MaxFrames

\* C5: while the controller stays mounted, once the first mouse-move or
\* pointer-enter has occurred mouse control eventually becomes active, also
\* when the effect is torn down and re-run while the timer is pending.
C5_EventuallyActive == delayTimerStarted ~> (mouseControlReady \/ ~mounted)

\* The state of the controller: everything but the bookkeeping of the run.
controllerVars ==
    <<listeners, pendingTimers, keys, mouseX, mouseY, mouseControlReady,
      delayTimerStarted, delayTimerRef, kinematicVars>>

\* C6: after the unmount no event changes any controller state and no timer
\* fires, so mouse control does not become active after it.
C6_NothingAfterTeardown ==
    [][~mounted => (UNCHANGED controllerVars /\ timersFired' = timersFired)]_vars

\* C6's case: the component was unmounted with the timer set and not yet fired.
C6_Witness ==
    /\ ~mounted
    /\ delayTimerRef # NoTimer
    /\ timersFired = 0
    /\ pendingTimers = {}
    /\ listeners = {}

\* A step is a frame step.
IsFrameStep == frames' = frames + 1

\* A frame step that directly follows a handled pointer-leave.
FrameAfterLeave == justLeft /\ IsFrameStep

EasedToZero(speed) == speed - Round(speed * EasePct, Percent)

FrameInDeadZoneX == IsFrameStep /\ mouseControlReady /\ Abs(mouseX) < props.deadZone

FrameInDeadZoneY == IsFrameStep /\ mouseControlReady /\ Abs(mouseY) < props.deadZone

\* C8 as stated: such a frame step does not change the speed on that axis.
C8_DeadZoneKeepsSpeed ==
    [][/\ FrameInDeadZoneX => currentYawSpeed' = currentYawSpeed
       /\ FrameInDeadZoneY => currentPitchSpeed' = currentPitchSpeed]_vars

\* C8, amended: such a frame step gives the axis a target speed of zero: the
\* speed is eased toward zero by 4%, never grows, and stays zero if it was zero.
C8_DeadZoneEasesToZero ==
    [][/\ FrameInDeadZoneX =>
            /\ currentYawSpeed' = EasedToZero(currentYawSpeed)
            /\ Abs(currentYawSpeed') <= Abs(currentYawSpeed)
       /\ FrameInDeadZoneY =>
            /\ currentPitchSpeed' = EasedToZero(currentPitchSpeed)
            /\ Abs(currentPitchSpeed') <= Abs(currentPitchSpeed)]_vars

\* C8's case: a frame step has run with a non-zero offset inside the dead zone
\* while the camera was turning.
C8_Witness ==
    /\ mouseControlReady
    /\ mouseX # 0
    /\ Abs(mouseX) < props.deadZone
    /\ frames > 1
    /\ currentYawSpeed # 0

\* A frame step with mouse control active and the stored horizontal offset
\* beyond the dead zone, to the right (to the left).
FrameOffsetRight == IsFrameStep /\ mouseControlReady /\ mouseX > props.deadZone

FrameOffsetLeft == IsFrameStep /\ mouseControlReady /\ mouseX < -props.deadZone

\* C9 as stated: every such frame step moves yaw strictly in the direction of
\* the sign convention (right: yaw decreases), from any yaw-speed.
C9_YawFollowsOffset ==
    [][/\ FrameOffsetRight => currentYaw' < currentYaw
       /\ FrameOffsetLeft => currentYaw' > currentYaw]_vars

\* C9, amended: such a frame step moves yaw strictly in that direction when the
\* yaw-speed before it is zero or already has that direction; a yaw-speed left
\* from an opposite offset is first eased down, yaw still moving the other way.
C9_YawFollowsOffsetOnceTurning ==
    [][/\ (FrameOffsetRight /\ currentYawSpeed <= 0) =>
            (currentYawSpeed' < 0 /\ currentYaw' < currentYaw)
       /\ (FrameOffsetLeft /\ currentYawSpeed >= 0) =>
            (currentYawSpeed' > 0 /\ currentYaw' > currentYaw)
       /\ (FrameOffsetRight /\ currentYawSpeed > 0) =>
            currentYawSpeed' < currentYawSpeed
       /\ (FrameOffsetLeft /\ currentYawSpeed < 0) =>
            currentYawSpeed' > currentYawSpeed]_vars

\* C9's case: two frame steps and more have run under an offset to the right,
\* the yaw having decreased.
C9_Witness ==
    /\ mouseControlReady
    /\ mouseX > props.deadZone
    /\ frames > 1
    /\ currentYawSpeed < 0
    /\ currentYaw < currentYawSpeed

\* A frame step in which no movement key is held.
FrameWithoutMovementKey == IsFrameStep /\ keys \cap MovementCodes = {}

\* What the boundary constraints that acted in the step make of the velocity
\* that was integrated: floor and ceiling zero its y, the distance constraint
\* halves it.
AfterConstraints(v) ==
    LET v1 == IF acted' \cap {"floor", "ceiling"} # {} THEN [v EXCEPT !.y = 0] ELSE v
    IN  IF "distance" \in acted' THEN VScale(v1, BounceDampPct, Percent) ELSE v1

\* C10 as stated: in a frame step without a movement key every velocity
\* component is multiplied by the configured friction before integration.
C10_FrictionOnEveryAxis ==
    [][FrameWithoutMovementKey =>
        velocity' = AfterConstraints(VScale(velocity, props.friction, Percent))]_vars

\* C10, amended: in such a frame step x and z are multiplied by the configured
\* friction and y by the fixed factor 0.7 before integration; no component
\* grows in magnitude or changes sign (0 <= friction < 1).
C10_FrictionHorizontalFixedVertical ==
    [][FrameWithoutMovementKey =>
        LET decayed == Vec(Round(velocity.x * props.friction, Percent),
                           Round(velocity.y * VerticalFrictionPct, Percent),
                           Round(velocity.z * props.friction, Percent))
        IN  /\ velocity' = AfterConstraints(decayed)
            /\ Abs(velocity'.x) <= Abs(velocity.x)
            /\ Abs(velocity'.y) <= Abs(velocity.y)
            /\ Abs(velocity'.z) <= Abs(velocity.z)
            /\ velocity'.x * velocity.x >= 0
            /\ velocity'.y * velocity.y >= 0
            /\ velocity'.z * velocity.z >= 0]_vars

\* C10's case: a frame step without input has run on a camera moving both
\* horizontally and vertically, no boundary constraint acting.
C10_Witness ==
    /\ frames > 1
    /\ acted = {}
    /\ velocity.z # 0
    /\ velocity.y # 0

\* A frame step in which a forward key is held and no other movement key.
FrameForwardOnly ==
    /\ IsFrameStep
    /\ keys \cap MovementCodes # {}
    /\ keys \cap MovementCodes \subseteq {"KeyW", "ArrowUp"}

\* moveSpeed times the camera's horizontal forward unit vector, for the
\* rotation the frame step starts with.
ForwardVelocity == VScale(Forward(currentYaw, currentPitch), props.moveSpeed, DirScale)

\* C11 as stated: a frame step with only a forward key held ends with the
\* velocity moveSpeed x forward, also at or beyond a boundary.
C11_ForwardVelocityAlways == [][FrameForwardOnly => velocity' = ForwardVelocity]_vars

\* C11, amended: such a frame step ends with the velocity moveSpeed x forward,
\* whatever the velocity was, when the distance constraint does not act in it
\* (the height clamps leave it alone, forward being horizontal), and with half
\* of that when the distance constraint acts.
C11_ForwardVelocityUnlessDamped ==
    [][FrameForwardOnly =>
        /\ ForwardVelocity.y = 0
        /\ velocity' = IF "distance" \in acted'
                       THEN VScale(ForwardVelocity, BounceDampPct, Percent)
                       ELSE ForwardVelocity]_vars

\* C11's case: a frame step with only the forward key held has run inside the
\* boundaries, after a wheel event had given the camera a vertical velocity.
C11_Witness ==
    /\ keys = {"KeyW"}
    /\ acted = {"input"}
    /\ wheels > 0
    /\ velocity.y = 0
    /\ velocity.z = -props.moveSpeed

\* The run is C12's scenario: moveSpeed 1 and friction 0.5, the camera starting
\* at rest, a first frame step with only the forward key held, then three frame
\* steps with no key held, no boundary constraint acting in any of the four (a
\* recording run has no wheel events).
FrictionScenario ==
    /\ props.moveSpeed = LenScale
    /\ 2 * props.friction = Percent
    /\ Len(trail) >= 4
    /\ trail[1].keys = {"KeyW"}
    /\ \A i \in 2..4 : trail[i].keys = {}
    /\ \A i \in 1..4 : trail[i].acted \subseteq {"input"}

\* C12: in that scenario the velocity magnitudes at the ends of the four frame
\* steps are 1, 0.5, 0.25 and 0.125.
C12_FrictionHalvesSpeed ==
    FrictionScenario =>
        /\ trail[1].speed = LenScale
        /\ 2 * trail[2].speed = LenScale
        /\ 4 * trail[3].speed = LenScale
        /\ 8 * trail[4].speed = LenScale

\* C12's case: the four frame steps of the scenario have run, the camera half
\* a unit short of two units ahead of where it started.
C12_Witness ==
    /\ FrictionScenario
    /\ frames = 4
    /\ 8 * Length(velocity) = LenScale
    /\ 8 * (env.start.z - position.z) = 15 * LenScale

\* u x v without rescaling (the coordinates are below 2^15).
CrossProduct(u, v) ==
    Vec(u.y * v.z - u.z * v.y, u.z * v.x - u.x * v.z, u.x * v.y - u.y * v.x)

\* v is on the ray from the origin through u, up to a rounding error of tol
\* units in each coordinate of v.
OnRay(u, v, tol) ==
    LET c == CrossProduct(u, v)
        bound == tol * (Abs(u.x) + Abs(u.y) + Abs(u.z))
    IN  /\ Abs(c.x) <= bound
        /\ Abs(c.y) <= bound
        /\ Abs(c.z) <= bound
        /\ u.x * v.x + u.y * v.y + u.z * v.z > 0

\* w is half of v in every component, up to rounding.
Halved(v, w) ==
    /\ Abs(2 * w.x - v.x) <= 1
    /\ Abs(2 * w.y - v.y) <= 1
    /\ Abs(2 * w.z - v.z) <= 1

\* The distance constraint on the example of C13: anchor (0,0,0), maxDistance
\* 10, position (15,0,0), velocity (2,-1,4).
ClampExample ==
    DistanceConstraint(Body(Vec(15 * LenScale, 0, 0),
                            Vec(2 * LenScale, -LenScale, 4 * LenScale), {}),
                       10 * LenScale, Vec(0, 0, 0))

\* C13: when the position a frame step has after integration and the height
\* clamps is farther than maxDistance from the anchor, the step ends at distance
\* maxDistance (up to rounding) on the ray from the anchor through that position
\* with every velocity component halved; otherwise the distance constraint
\* leaves position and velocity as they are. In the example (15,0,0) becomes
\* (10,0,0).
C13_ProjectsOntoSphere ==
    [][/\ ClampExample.pos = Vec(10 * LenScale, 0, 0)
       /\ ClampExample.vel = Vec(LenScale, -Round(LenScale, 2), 2 * LenScale)
       /\ IsFrameStep =>
            LET b == HeightClamped(position, velocity, keys, currentYaw, currentPitch,
                                   props)
                offset == VSub(b.pos, props.treeCenter)
                placed == VSub(position', props.treeCenter)
                tol == DistanceTolerance(props)
                most == props.maxDistance + tol
                least == props.maxDistance - tol
            IN  IF LengthSq(offset) > props.maxDistance * props.maxDistance
                THEN /\ LengthSq(placed) <= most * most
                     /\ LengthSq(placed) >= least * least
                     /\ OnRay(offset, placed, tol)
                     /\ Halved(b.vel, velocity')
                     /\ "distance" \in acted'
                ELSE /\ position' = b.pos
                     /\ velocity' = b.vel
                     /\ "distance" \notin acted']_vars

\* C13's case: the distance constraint has acted on a moving camera that was
\* off the anchor's axes, and has halved its velocity.
C13_Witness ==
    /\ "distance" \in acted
    /\ "input" \in acted
    /\ 2 * Length(velocity) = props.moveSpeed
    /\ position.y # props.treeCenter.y
    /\ position.z # props.treeCenter.z

\* C14 as stated: no event handler writes the camera's kinematic state:
\* position, velocity, yaw, pitch and the two speeds change in frame steps only.
C14_OnlyFrameWritesKinematics == [][~IsFrameStep => UNCHANGED kinematicVars]_vars

\* C15: the held-key set holds a key exactly when a keydown for it was handled
\* with neither Meta nor Ctrl pressed and no keyup for it since; a keydown with
\* Meta or Ctrl leaves the set as it is, a keyup removes the key whatever the
\* modifiers.
C15_HeldKeysFollowKeyEvents == keys = heldKeys

\* C15's case: a keydown with a modifier was ignored, two keys were pressed and
\* held during the first frame step, and one of them was released since.
C15_Witness ==
    /\ chordIgnored
    /\ Len(trail) > 0
    /\ trail[1].keys = {"KeyW", "KeyS"}
    /\ keys = {"KeyS"}

\* Every request of the loader has ended and no timeout of Scene is pending:
\* no callback of Scene's effect is still to run.
LoadSettled == (\A m \in Models : modelStatus[m] # "loading") /\ ~readyTimer

\* C16 as stated: when the loading of a model has failed, Scene does not stay
\* 'loading': once its callbacks have run it is in a state that reports the
\* error, neither 'loading' nor 'ready'.
C16_LoadFailureReported ==
    (LoadSettled /\ \E m \in Models : modelStatus[m] = "failed") =>
        loadingState \notin {"loading", "ready"}

\* The activation phase: 0 idle, 1 pending, 2 active.
ActivationPhase ==
    IF mouseControlReady THEN 2 ELSE IF delayTimerStarted THEN 1 ELSE 0

\* C17: the activation phase only moves forward, one phase at a time; at most
\* one delay timer is ever started, and only from idle (so not by a re-enter
\* after a leave); mouse control, once active, stays active.
C17_ActivationOnlyForward ==
    [][/\ ActivationPhase' >= ActivationPhase
       /\ ActivationPhase' <= ActivationPhase + 1
       /\ timersStarted' <= 1
       /\ timersStarted' # timersStarted => ActivationPhase = 0
       /\ mouseControlReady => mouseControlReady']_vars

\* C17's case: a pointer-leave was handled with mouse control active, the one
\* timer started and fired, the pointer having been in the viewport before.
C17_Witness ==
    /\ justLeft
    /\ mouseControlReady
    /\ timersStarted = 1
    /\ timersFired = 1
    /\ currentYawSpeed # 0

\* The activation is pending: the timer was started, its callback has not run.
ActivationPending == delayTimerStarted /\ ~mouseControlReady

\* C18 as stated: while the activation is pending the stored offset is that of
\* the last pointer event handled, and so it is when the timer fires.
C18_OffsetTrackedWhilePending ==
    [][/\ ActivationPending' => <<mouseX', mouseY'>> = delayOffset'
       /\ timersFired' # timersFired => <<mouseX', mouseY'>> = delayOffset]_vars

\* C18, amended: while the activation is pending no mouse-move or pointer-enter
\* stores its offset; the stored offset is (0, 0) until the timer fires and at
\* the moment it fires, whatever movement was made during the delay.
C18_NoOffsetUntilActive ==
    [][/\ ~mouseControlReady' => (mouseX' = 0 /\ mouseY' = 0)
       /\ timersFired' # timersFired => (mouseX' = 0 /\ mouseY' = 0)]_vars

\* C18's case: a pointer event away from the centre was handled while the
\* activation was pending, and a frame step has run since.
C18_Witness ==
    /\ ActivationPending
    /\ delayOffset # <<0, 0>>
    /\ frames > 0
    /\ mouseX = 0
    /\ mouseY = 0

\* The vertical velocity the frame step would integrate had no wheel event
\* been handled since the last frame step.
VerticalWithoutWheel ==
    LET forward == Forward(currentYaw, currentPitch)
    IN  ApplyMovement([velocity EXCEPT !.y = @ - wheelPending],
                      InputDir(keys, forward, Right(forward)),
                      props.moveSpeed, props.friction).y

\* C19 as stated: in the frame step after wheel events, what is integrated into
\* position.y is the vertical velocity of the step plus the scaled wheel amount,
\* with or without movement keys held (steps in which no boundary constraint
\* acts, so that the change of position.y is what was integrated).
C19_WheelReachesIntegration ==
    [][(IsFrameStep /\ wheelPending # 0 /\ acted' \subseteq {"input"}) =>
        position'.y - position.y = VerticalWithoutWheel + wheelPending]_vars

\* C20: a pointer-leave sets the stored offset to (0, 0), in every activation
\* phase, and changes nothing else of the controller: keys, activation state,
\* timer, kinematics, listeners.
C20_LeaveOnlyZeroesOffset ==
    [][justLeft' =>
        /\ mouseX' = 0
        /\ mouseY' = 0
        /\ UNCHANGED <<keys, activationVars, kinematicVars, hostVars>>]_vars

\* C20's case: a pointer-leave was handled while the activation was pending
\* (the timer set and not fired), a key held and the camera moving.
C20_Witness ==
    /\ justLeft
    /\ ActivationPending
    /\ pendingTimers # {}
    /\ keys # {}
    /\ velocity # Vec(0, 0, 0)

\* Every movement key held in k is matched by a key of the opposing direction.
Matched(k) ==
    /\ Has(k, {"KeyW", "ArrowUp"}) <=> Has(k, {"KeyS", "ArrowDown"})
    /\ Has(k, {"KeyA", "ArrowLeft"}) <=> Has(k, {"KeyD", "ArrowRight"})
    /\ Has(k, {"KeyR", "Space"}) <=> Has(k, {"KeyF", "ShiftLeft", "ShiftRight"})

\* The matched sets of keys over one key of each direction.
MatchedSets == {k \in SUBSET {"KeyW", "KeyS", "KeyA", "KeyD", "KeyR", "KeyF"} : Matched(k)}

\* A frame step in which movement keys are held, each matched by its opposite.
FrameWithMatchedKeys == IsFrameStep /\ keys \cap MovementCodes # {} /\ Matched(keys)

\* C21: in a frame step where every held movement key is matched by its
\* opposing key the input direction is zero (for every pairing of directions)
\* and the step is the step with no key held: the velocity is decayed by
\* friction and not set from moveSpeed.
C21_OpposingKeysCancel ==
    [][FrameWithMatchedKeys =>
        LET forward == Forward(currentYaw, currentPitch)
            b == MoveCamera(position, velocity, {}, currentYaw, currentPitch, props)
            decayed == Vec(Round(velocity.x * props.friction, Percent),
                           Round(velocity.y * VerticalFrictionPct, Percent),
                           Round(velocity.z * props.friction, Percent))
        IN  /\ \A k \in MatchedSets : InputDir(k, forward, Right(forward)) = Vec(0, 0, 0)
            /\ position' = b.pos
            /\ velocity' = b.vel
            /\ acted' = b.acted
            /\ "input" \notin acted'
            /\ velocity' = AfterConstraints(decayed)]_vars

\* C21's case: after a frame step with the forward key held, a frame step has
\* run with forward and backward held together, and has halved the speed
\* (friction 0.5) instead of setting it to moveSpeed.
C21_Witness ==
    /\ Len(trail) >= 2
    /\ trail[1].keys = {"KeyW"}
    /\ trail[1].speed = props.moveSpeed
    /\ trail[2].keys = {"KeyW", "KeyS"}
    /\ trail[2].acted = {}
    /\ 2 * trail[2].speed = trail[1].speed

\* The position and velocity a frame step has after integration.
FrameIntegrated == Integrated(position, velocity, keys, currentYaw, currentPitch, props)

\* The same after the floor and ceiling constraints.
FrameHeightClamped ==
    HeightClamped(position, velocity, keys, currentYaw, currentPitch, props)

ClampedTo(bound) ==
    /\ FrameHeightClamped.pos = [FrameIntegrated.pos EXCEPT !.y = bound]
    /\ FrameHeightClamped.vel = [FrameIntegrated.vel EXCEPT !.y = 0]
    /\ velocity'.y = 0
    /\ "distance" \notin acted' => position'.y = bound

BothLoaded ==
    /\ \A m \in Models : modelStatus[m] = "loaded"
    /\ loadedCount = totalModels

\* C23: Scene is 'ready' only when the load-complete callbacks of both models
\* have run (so never in a run where only one model finished loading, and
\* never with the timeout still pending), and once 'ready' it stays 'ready'.
C23_ReadyOnlyAfterBothLoaded ==
    [][/\ loadingState \in {"loading", "ready"}
       /\ loadingState = "ready" => (BothLoaded /\ loadingState' = "ready")
       /\ loadingState' = "ready" => (BothLoaded' /\ ~readyTimer')
       /\ loadingState' # loadingState => (readyTimer /\ BothLoaded)]_vars

\* C23's case: a run that started with both models loading has reached 'ready',
\* progress events having been received on the way.
C23_Witness ==
    /\ ~env.loaded
    /\ loadingState = "ready"
    /\ progress = 100
    /\ \E m \in Models : progressPerModel[m] < 100

==========================================================================
